---- MODULE Spec2Model ----
(***************************************************************************)
(* A model of runwind: the pipe-based address validator                    *)
(* (src/src/addr_validate.rs), the frame iterator (src/src/unwinder.rs)    *)
(* and the module registry (src/src/object.rs, src/src/object/*.rs).       *)
(*                                                                         *)
(* Five specifications share the variables:                                *)
(*   SpecValidate  one thread calling validate() over a kernel model       *)
(*   SpecThreads   several threads calling validate(), one step per        *)
(*                 system call, over one descriptor table                  *)
(*   SpecUnwind    one UnwindIterator pulled over a stack image            *)
(*   SpecObjects   threads calling get_objects()/find_objects() and        *)
(*                 Unwinder::new()                                         *)
(*   SpecScan      find_eh_frame walking one call-frame region             *)
(* A specification leaves the variables of the others at their idle        *)
(* values.                                                                 *)
(***************************************************************************)
EXTENDS Integers, Sequences, FiniteSets, TLC

VARIABLES
    platform,   \* "linux" | "macos": which create_pipe is compiled in
    kern,       \* the kernel's view: descriptor table and pipe buffers
    pipes,      \* MEM_VALIDATE_PIPE of the calling thread: <<read fd, write fd>>
    owned,      \* descriptors created by the validator and not yet closed
    vlog,       \* what the last validate call did (a record, see Validate)
    vcalls,     \* number of validate calls made so far
    vhist,      \* events seen so far: "create_failed", "probe_false", "recreated"
    shortWrites,\* does the kernel write the readable prefix of a partly
                \* readable buffer (TRUE) or fail with EFAULT (FALSE)
    image,      \* which stack image the thread's memory holds (0: none)
    iter,       \* the UnwindIterator: [on, how, addr, regs]
    yielded,    \* the addresses the iterator has returned, in order
    ulog,       \* what the last try_next did
    faulted,    \* has unmapped memory been dereferenced
    variant,    \* which registry source is built: "dl_iterate_phdr" |
                \* "macos" | "object" (src/src/object.rs, no cache)
    loader,     \* the modules the dynamic loader reports, in its order
    lazy,       \* the once-cell OBJECTS: "uninit" | "running" | "done"
    objects,    \* the value of OBJECTS once built
    scans,      \* how many times the cell's initialiser has been started
    thr,        \* per thread: [pc, via, idx, buf, ret, got, calls]
    cbrets,     \* the values returned by the discovery callbacks so far
    scan,       \* the live scan of find_eh_frame: memory, cursors, reads
    vt,         \* per thread: MEM_VALIDATE_PIPE and the position in validate
    fdOwner,    \* per descriptor: the thread whose pipe it is an end of
    races       \* the system calls made on another thread's descriptor

vvars == <<platform, kern, pipes, owned, vlog, vcalls, vhist, shortWrites>>
uvars == <<image, iter, yielded, ulog, faulted>>
ovars == <<variant, loader, lazy, objects, scans, thr, cbrets>>
xvars == <<scan, vt, fdOwner, races>>
vars == <<vvars, uvars, ovars, xvars>>

-----------------------------------------------------------------------------
(* Bounds of the model *)

\* size of the process descriptor table (RLIMIT_NOFILE, scaled down)
MaxFd == 8
\* descriptors 0..NumStdio-1 are open before the validator runs
NumStdio == 3
\* validate calls explored per behaviour
MaxCalls == 4
\* the stack mapping holds this many 8-byte words
StackWords == 8

(* Program constants *)

\* size_of::<*const c_void>() on the 64-bit targets the crate builds for
PtrSize == 8
\* const CHECK_LENGTH: usize = 2 * size_of::<*const c_void>() / size_of::<u8>()
CHECK_LENGTH == (2 * PtrSize) \div 1
\* libc::EINTR and libc::EAGAIN, the values validate compares results with
EINTR == 4
EAGAIN == 11

-----------------------------------------------------------------------------
(* The address space.  Pointers are scaled down from 64 to AddrBits bits;  *)
(* the null page and the top of the address space are unmapped.            *)

AddrBits == 8
AllOnes == 2^AddrBits - 1
NullAddr == 0

StackLo == 4 * PtrSize
StackHi == StackLo + StackWords * PtrSize
HeapLo == StackHi + 2 * PtrSize
HeapHi == HeapLo + 3 * PtrSize

CodeLo == HeapHi + 2 * PtrSize
CodeHi == CodeLo + 9 * PtrSize

\* the mapped, readable regions [lo, hi): stack, heap, module images
Regions ==
    << [lo |-> StackLo, hi |-> StackHi], [lo |-> HeapLo, hi |-> HeapHi],
       [lo |-> CodeLo, hi |-> CodeHi] >>

Min(a, b) == IF a < b THEN a ELSE b

\* number of consecutive readable bytes starting at addr, at most n
ReadablePrefix(addr, n) ==
    IF \E i \in DOMAIN Regions : Regions[i].lo <= addr /\ addr < Regions[i].hi
    THEN LET i == CHOOSE j \in DOMAIN Regions :
                      Regions[j].lo <= addr /\ addr < Regions[j].hi
         IN Min(n, Regions[i].hi - addr)
    ELSE 0

Readable(addr, n) == ReadablePrefix(addr, n) = n

-----------------------------------------------------------------------------
(* The kernel: a descriptor table and the bytes buffered in each pipe.     *)

FdRange == 0 .. (MaxFd - 1)
PipeIds == 1 .. (MaxFd \div 2)
Closed == [kind |-> "closed", pipe |-> 0]
StdFile == [kind |-> "file", pipe |-> 0]

KernInit ==
    [fds |-> [fd \in FdRange |-> IF fd < NumStdio THEN StdFile ELSE Closed],
     buf |-> [p \in PipeIds |-> 0]]

IsOpen(k, fd) == fd \in FdRange /\ k.fds[fd].kind # "closed"
FreeFds(k) == {fd \in FdRange : k.fds[fd].kind = "closed"}
LiveEnds(k, p) == {fd \in FdRange : k.fds[fd].pipe = p}
LowestOf(S) == CHOOSE x \in S : \A y \in S : x <= y

\* close(2): 0, or -1 (EBADF) for a descriptor that is not open.  A pipe
\* whose last end goes away loses its buffer.
SysClose(k, fd) ==
    IF ~IsOpen(k, fd) THEN [k |-> k, res |-> -1]
    ELSE LET p == k.fds[fd].pipe
             fds2 == [k.fds EXCEPT ![fd] = Closed]
             gone == p # 0 /\ \A g \in FdRange : fds2[g].pipe # p
         IN [k |-> [fds |-> fds2,
                    buf |-> IF gone THEN [k.buf EXCEPT ![p] = 0] ELSE k.buf],
             res |-> 0]

\* pipe(2)/pipe2(2): the two lowest free descriptors, or failure when the
\* environment refuses (ok = FALSE: EMFILE/ENFILE) or the table is full.
SysPipe(k, ok) ==
    LET free == FreeFds(k)
        unused == {p \in PipeIds : LiveEnds(k, p) = {}}
    IN IF ~ok \/ Cardinality(free) < 2 \/ unused = {}
       THEN [k |-> k, res |-> -1, r |-> -1, w |-> -1]
       ELSE LET r == LowestOf(free)
                w == LowestOf(free \ {r})
                p == LowestOf(unused)
            IN [k |-> [fds |-> [k.fds EXCEPT ![r] = [kind |-> "r", pipe |-> p],
                                             ![w] = [kind |-> "w", pipe |-> p]],
                       buf |-> [k.buf EXCEPT ![p] = 0]],
                res |-> 0, r |-> r, w |-> w]

\* fcntl(2) on a descriptor: fails only with EBADF
SysFcntl(k, fd) == IF IsOpen(k, fd) THEN 0 ELSE -1

\* non-blocking read(2) of up to n bytes: the byte count, 0 at end of file,
\* -1 on error (EBADF for a descriptor that is not a readable pipe end,
\* EAGAIN for an empty pipe; errno is not part of the return value)
SysRead(k, fd, n) ==
    IF ~IsOpen(k, fd) \/ k.fds[fd].kind # "r" THEN [k |-> k, res |-> -1]
    ELSE LET p == k.fds[fd].pipe
             got == Min(n, k.buf[p])
         IN IF got > 0
            THEN [k |-> [k EXCEPT !.buf[p] = @ - got], res |-> got]
            ELSE IF \E g \in FdRange : k.fds[g] = [kind |-> "w", pipe |-> p]
                 THEN [k |-> k, res |-> -1]
                 ELSE [k |-> k, res |-> 0]

\* capacity of a pipe buffer (scaled down); a write that does not fit
\* fails with EAGAIN
PipeCap == 4 * CHECK_LENGTH

\* non-blocking write(2) of n bytes from user address addr: -1 for a bad
\* descriptor (EBADF), for a full pipe (EAGAIN) and when the first byte is
\* unreadable (EFAULT).  When only a prefix of the n bytes is readable the
\* kernel either fails with EFAULT or writes the prefix (short = TRUE).
SysWrite(k, fd, addr, n, short) ==
    IF ~IsOpen(k, fd) \/ k.fds[fd].kind # "w" THEN [k |-> k, res |-> -1]
    ELSE LET p == k.fds[fd].pipe
             ok == ReadablePrefix(addr, n)
             put == IF ok = n \/ short THEN ok ELSE 0
         IN IF put = 0 \/ k.buf[p] + put > PipeCap
            THEN [k |-> k, res |-> -1]
            ELSE [k |-> [k EXCEPT !.buf[p] = @ + put], res |-> put]

-----------------------------------------------------------------------------
(* src/src/addr_validate.rs *)

\* thread_local MEM_VALIDATE_PIPE = RefCell::new([-1, -1])
PipesInit == <<-1, -1>>

\* create_pipe(): pipe2(O_CLOEXEC | O_NONBLOCK) on linux; on macos pipe()
\* followed by set_flags (four fcntl calls) on each end, any failure
\* returning early with the descriptors still open.  p is what pipe/pipe2
\* returned; made: the descriptors the call left open in the table.
CreatePipeResult(plat, k, p) ==
    IF p.res # 0
    THEN [ok |-> FALSE, k |-> k, r |-> -1, w |-> -1, made |-> {}]
    ELSE IF plat = "linux"
         THEN [ok |-> TRUE, k |-> p.k, r |-> p.r, w |-> p.w, made |-> {p.r, p.w}]
         ELSE [ok |-> SysFcntl(p.k, p.r) = 0 /\ SysFcntl(p.k, p.w) = 0,
               k |-> p.k, r |-> p.r, w |-> p.w, made |-> {p.r, p.w}]

create_pipe(plat, k, ok) == CreatePipeResult(plat, k, SysPipe(k, ok))

\* open_pipe() after its two close calls: cp is what create_pipe returned;
\* the ends are stored only when the creation succeeded
OpenPipeResult(st, cp) ==
    [st |-> [k |-> cp.k,
             pipes |-> IF cp.ok THEN <<cp.r, cp.w>> ELSE st.pipes,
             owned |-> (st.owned \ {st.pipes[1], st.pipes[2]}) \cup cp.made],
     ok |-> cp.ok,
     shut |-> {fd \in {st.pipes[1], st.pipes[2]} : IsOpen(st.k, fd)}]

\* an open_pipe that forgets to close the descriptors it replaces
open_pipe_leaky(plat, st, ok) ==
    [st |-> [k |-> create_pipe(plat, st.k, ok).k,
             pipes |-> IF create_pipe(plat, st.k, ok).ok
                       THEN <<create_pipe(plat, st.k, ok).r,
                              create_pipe(plat, st.k, ok).w>>
                       ELSE st.pipes,
             owned |-> st.owned \cup create_pipe(plat, st.k, ok).made],
     ok |-> create_pipe(plat, st.k, ok).ok,
     shut |-> {}]

\* open_pipe(): close both stored descriptors ignoring the results, then
\* create a pipe
open_pipe(plat, st, ok) ==
    OpenPipeResult(st,
        create_pipe(plat,
                    SysClose(SysClose(st.k, st.pipes[1]).k, st.pipes[2]).k,
                    ok))

\* the drain loop of validate: one read of CHECK_LENGTH bytes from pipes[0];
\* r is what read returned, and the loop repeats only when that equals EINTR
RECURSIVE DrainPipe(_, _)
\* a drain that takes every failed read for "no data"
DrainResultLenient(fd, r) ==
    IF r.res >= 0 THEN [k |-> r.k, valid |-> r.res > 0, res |-> r.res]
    ELSE [k |-> r.k, valid |-> TRUE, res |-> r.res]

DrainResult(fd, r) ==
    IF r.res >= 0 THEN [k |-> r.k, valid |-> r.res > 0, res |-> r.res]
    ELSE IF r.res = EINTR THEN DrainPipe(r.k, fd)
    ELSE IF r.res = EAGAIN THEN [k |-> r.k, valid |-> TRUE, res |-> r.res]
    ELSE [k |-> r.k, valid |-> FALSE, res |-> r.res]

DrainPipe(k, fd) == DrainResult(fd, SysRead(k, fd, CHECK_LENGTH))

\* the probe loop of validate: write CHECK_LENGTH bytes starting at addr
\* into pipes[1]; w is what write returned
RECURSIVE WriteProbe(_, _, _, _)
ProbeResult(fd, addr, short, w) ==
    IF w.res >= 0 THEN [k |-> w.k, valid |-> w.res > 0, res |-> w.res]
    ELSE IF w.res = EINTR THEN WriteProbe(w.k, fd, addr, short)
    ELSE [k |-> w.k, valid |-> FALSE, res |-> w.res]

WriteProbe(k, fd, addr, short) ==
    ProbeResult(fd, addr, short, SysWrite(k, fd, addr, CHECK_LENGTH, short))

\* what the environment decides during one validate call: whether a pipe
\* creation would succeed (descriptors may run out at any time)
Envs == [create : BOOLEAN]

\* validate(addr) of a thread whose state is st = [k, pipes, owned].
\* The result carries the new state, the returned boolean and a record of
\* the system calls made.

\* the end of validate: the probe w was written through o.st.pipes[2]
ValidateProbed(st, addr, d, o, w) ==
    [st |-> [o.st EXCEPT !.k = w.k], res |-> w.valid, addr |-> addr,
     readFd |-> st.pipes[1], drain |-> d.res, reopened |-> ~d.valid,
     createErr |-> FALSE, shut |-> o.shut, writeFd |-> o.st.pipes[2],
     wres |-> w.res]

\* a validate that answers true when the pipe cannot be created
ValidateOpenedOptimistic(short, st, addr, d, o) ==
    IF ~d.valid /\ ~o.ok
    THEN [st |-> o.st, res |-> TRUE, addr |-> addr, readFd |-> st.pipes[1],
          drain |-> d.res, reopened |-> TRUE, createErr |-> TRUE,
          shut |-> o.shut, writeFd |-> -1, wres |-> -1]
    ELSE ValidateProbed(st, addr, d, o,
                        WriteProbe(o.st.k, o.st.pipes[2], addr, short))

\* if !valid_read && open_pipe().is_err() { return false }, then the probe
ValidateOpened(short, st, addr, d, o) ==
    IF ~d.valid /\ ~o.ok
    THEN [st |-> o.st, res |-> FALSE, addr |-> addr, readFd |-> st.pipes[1],
          drain |-> d.res, reopened |-> TRUE, createErr |-> TRUE,
          shut |-> o.shut, writeFd |-> -1, wres |-> -1]
    ELSE ValidateProbed(st, addr, d, o,
                        WriteProbe(o.st.k, o.st.pipes[2], addr, short))

\* after the drain d: open_pipe is called only when the drain was not valid
ValidateDrained(plat, short, st, addr, env, d) ==
    ValidateOpened(short, st, addr, d,
        IF ~d.valid THEN open_pipe(plat, [st EXCEPT !.k = d.k], env.create)
        ELSE [st |-> [st EXCEPT !.k = d.k], ok |-> TRUE, shut |-> {}])

validate(plat, short, st, addr, env) ==
    ValidateDrained(plat, short, st, addr, env, DrainPipe(st.k, st.pipes[1]))

-----------------------------------------------------------------------------
(* SpecValidate: one thread calls validate on addresses of every kind.     *)

\* null, all-ones, the unmapped word below the stack, the first and an inner
\* stack word, the last stack word (only PtrSize of its CHECK_LENGTH probed
\* bytes are mapped) and a heap word
ProbeAddrs ==
    {NullAddr, AllOnes, StackLo - PtrSize, StackLo, StackLo + 3,
     StackHi - PtrSize, HeapLo}

NoCall ==
    [res |-> FALSE, addr |-> -1, readFd |-> -1, drain |-> 0, reopened |-> FALSE,
     createErr |-> FALSE, shut |-> {}, writeFd |-> -1, wres |-> 0,
     prevAddr |-> -1, prevRes |-> FALSE, hadPipe |-> FALSE, seen |-> {},
     emptyAtEntry |-> FALSE, n |-> 0]

VState == [k |-> kern, pipes |-> pipes, owned |-> owned]

\* the read end stored by the thread is an open pipe end whose pipe is open
\* for writing and holds no data: a read from it fails with EAGAIN
PipeOpenAndEmpty(k, p) ==
    /\ IsOpen(k, p[1]) /\ k.fds[p[1]].kind = "r"
    /\ IsOpen(k, p[2]) /\ k.fds[p[2]] = [kind |-> "w", pipe |-> k.fds[p[1]].pipe]
    /\ k.buf[k.fds[p[1]].pipe] = 0

\* the events of a call that later properties refer to
Events(v) ==
    (IF v.createErr THEN {"create_failed"} ELSE {})
    \cup (IF ~v.res /\ ~v.createErr THEN {"probe_false"} ELSE {})
    \cup (IF v.reopened /\ ~v.createErr /\ v.shut # {} THEN {"recreated"} ELSE {})

ValidateCall ==
    /\ vcalls < MaxCalls
    /\ \E addr \in ProbeAddrs, env \in Envs :
          \E v \in {validate(platform, shortWrites, VState, addr, env)} :
             /\ kern' = v.st.k
             /\ pipes' = v.st.pipes
             /\ owned' = v.st.owned
             /\ vlog' = [res |-> v.res, addr |-> v.addr, readFd |-> v.readFd,
                         drain |-> v.drain, reopened |-> v.reopened,
                         createErr |-> v.createErr, shut |-> v.shut,
                         writeFd |-> v.writeFd, wres |-> v.wres,
                         prevAddr |-> vlog.addr, prevRes |-> vlog.res,
                         hadPipe |-> IsOpen(kern, pipes[1]),
                         emptyAtEntry |-> PipeOpenAndEmpty(kern, pipes),
                         seen |-> IF vlog.n = 0 THEN {}
                                  ELSE vlog.seen \cup {vlog.addr},
                         n |-> vcalls + 1]
             /\ vhist' = vhist \cup Events(v)
    /\ vcalls' = vcalls + 1
    /\ UNCHANGED <<platform, shortWrites, uvars, ovars, xvars>>

ValidateNext == ValidateCall

-----------------------------------------------------------------------------
(* The thread's stack and the loaded code, as the unwinder sees them.      *)

\* call chains explored have at most this many frames
MaxDepth == 3
\* try_next calls explored per iterator
MaxPulls == 5

\* The engine's module table: runtime base, text range [lo, hi) and how the
\* call-frame data of the module's functions unwinds: "fp" (no usable
\* call-frame data: the frame-pointer convention), "end" (the data marks the
\* function as having no caller), "bad" (malformed call-frame program).
Modules ==
    << [base |-> CodeLo, lo |-> CodeLo + PtrSize, hi |-> CodeLo + 3 * PtrSize,
        rule |-> "fp"],
       [base |-> CodeLo + 4 * PtrSize, lo |-> CodeLo + 5 * PtrSize,
        hi |-> CodeLo + 6 * PtrSize, rule |-> "end"],
       [base |-> CodeLo + 7 * PtrSize, lo |-> CodeLo + 8 * PtrSize,
        hi |-> CodeLo + 9 * PtrSize, rule |-> "bad"] >>

\* the return address stored in frame i of a chain: inside the "fp" module,
\* all different, the one of frame MaxDepth - 1 being the end of the text
\* range, a return address just past a call that ends the text
RetAddr(i) == Modules[1].hi - (MaxDepth - 1 - i) * 2

\* frame i of a chain keeps its saved frame pointer at FrameAt(i) and its
\* return address one word above
FrameAt(i) == StackLo + (i - 1) * 2 * PtrSize

\* How the outermost frame of an image ends the chain:
\*   "zero"     return address 0 (a well-formed stack)
\*   "end"      returns into a function whose call-frame data says no caller
\*   "bad"      returns into a module with a malformed call-frame program
\*   "nomodule" returns to an address no module covers
\*   "wild"     the saved frame pointer of the frame below points to
\*              unmapped memory
\*   "cycle"    the saved frame pointer of the frame below points to itself
\*   "odd"      as "zero", but the saved frame pointer of the frame below
\*              points 3 bytes into the outermost frame's first word
Endings == {"zero", "end", "bad", "nomodule", "wild", "cycle", "odd"}

ImageSet == [depth : 1 .. MaxDepth, ending : Endings]

LastRet(e) ==
    CASE e = "zero" -> 0
      [] e = "end" -> Modules[2].lo + 1
      [] e = "bad" -> Modules[3].lo + 1
      [] e = "nomodule" -> CodeLo + 3
      [] OTHER -> 0

\* the 8-byte word stored at the word-aligned mapped address a
MemWord(img, a) ==
    IF a < StackLo \/ a >= StackHi THEN 0
    ELSE LET w == (a - StackLo) \div PtrSize
             i == (w \div 2) + 1
         IN IF i > img.depth THEN 0
            ELSE IF w % 2 = 0
                 THEN \* saved frame pointer
                      IF i = img.depth THEN 0
                      ELSE IF i = img.depth - 1 /\ img.ending = "wild"
                           THEN StackLo - 2 * PtrSize
                      ELSE IF i = img.depth - 1 /\ img.ending = "cycle"
                           THEN FrameAt(i)
                      ELSE IF i = img.depth - 1 /\ img.ending = "odd"
                           THEN FrameAt(i + 1) + 3
                      ELSE FrameAt(i + 1)
                 ELSE \* return address
                      IF i = img.depth THEN LastRet(img.ending)
                      ELSE RetAddr(i)

\* the register snapshot taken in the innermost function of the image
SnapshotRegs(img) ==
    [ip |-> Modules[1].lo, sp |-> FrameAt(1), bp |-> FrameAt(1)]

-----------------------------------------------------------------------------
(* src/src/unwinder.rs: read_stack *)

\* addr & !0b111
AlignDown(addr) == addr - (addr % 8)

\* a read_stack that reads the word whatever validate answered
ReadStackUnchecked(img, addr, aligned_addr, v) ==
    [st |-> v.st, ok |-> TRUE,
     val |-> IF Readable(aligned_addr, PtrSize) THEN MemWord(img, aligned_addr) ELSE 0,
     addr |-> addr, probe |-> v.addr, valid |-> v.res, deref |-> aligned_addr,
     fault |-> ~Readable(aligned_addr, PtrSize), createErr |-> v.createErr]

\* read_stack(addr): validate the aligned address, then read the word there.
\* probe: the address handed to validate; deref: the address dereferenced
\* (-1: none); fault: the dereference hit unmapped memory.  v is what
\* validate returned.
ReadStackResult(img, addr, aligned_addr, v) ==
    IF v.res
    THEN [st |-> v.st, ok |-> TRUE, val |-> MemWord(img, aligned_addr),
          addr |-> addr, probe |-> v.addr, valid |-> TRUE,
          deref |-> aligned_addr,
          fault |-> ~Readable(aligned_addr, PtrSize),
          createErr |-> v.createErr]
    ELSE [st |-> v.st, ok |-> FALSE, val |-> 0,
          addr |-> addr, probe |-> v.addr, valid |-> FALSE,
          deref |-> -1, fault |-> FALSE, createErr |-> v.createErr]

read_stack(plat, short, img, st, addr, env) ==
    ReadStackResult(img, addr, AlignDown(addr),
                    validate(plat, short, st, AlignDown(addr), env))

-----------------------------------------------------------------------------
(* The unwind engine behind UnwinderNative::unwind_frame, after spec.md    *)
(* section 4.3.                                                            *)

\* FrameAddress::address_for_lookup: exact for the first frame, addr - 1
\* for a return address
LookupAddress(fa) == IF fa.kind = "ip" THEN fa.a ELSE fa.a - 1

\* step 1: the module with the greatest base below the address, provided
\* the address lies in its text range; 0 when there is none
FindModule(a) ==
    LET below == {i \in DOMAIN Modules : Modules[i].base < a}
    IN IF below = {} THEN 0
       ELSE LET i == CHOOSE j \in below :
                         \A l \in below : Modules[l].base <= Modules[j].base
            IN IF Modules[i].lo <= a /\ a < Modules[i].hi THEN i ELSE 0

\* unwind_frame(addr, regs, cache, read_stack).  kind: "err" | "none" |
\* "some"; regs are written only by a successful step; reads: the
\* read_stack calls made, in order.
StepFail(why, regs, st, reads) ==
    [kind |-> "err", why |-> why, val |-> 0, regs |-> regs, st |-> st,
     reads |-> reads]

\* step 4, second read: the return address one word above the frame pointer
FramePointerStep2(regs, r1, r2) ==
    IF ~r2.ok THEN StepFail("stack_unreadable", regs, r2.st, <<r1, r2>>)
    ELSE [kind |-> "some", why |-> "", val |-> r2.val,
          regs |-> [ip |-> r2.val, sp |-> regs.bp + 2 * PtrSize, bp |-> r1.val],
          st |-> r2.st, reads |-> <<r1, r2>>]

\* step 4, first read: the caller's frame pointer at the frame pointer
FramePointerStep1(plat, short, img, regs, e2, r1) ==
    IF ~r1.ok THEN StepFail("stack_unreadable", regs, r1.st, <<r1>>)
    ELSE FramePointerStep2(regs, r1,
             read_stack(plat, short, img, r1.st, regs.bp + PtrSize, e2))

UnwindInModule(plat, short, img, st, regs, e1, e2, m) ==
    IF m = 0 THEN StepFail("no_module", regs, st, <<>>)
    ELSE IF Modules[m].rule = "bad" THEN StepFail("bad_cfi", regs, st, <<>>)
    ELSE IF Modules[m].rule = "end"
         THEN [kind |-> "none", why |-> "", val |-> 0, regs |-> regs,
               st |-> st, reads |-> <<>>]
    ELSE FramePointerStep1(plat, short, img, regs, e2,
             read_stack(plat, short, img, st, regs.bp, e1))

unwind_frame(plat, short, img, st, fa, regs, e1, e2) ==
    UnwindInModule(plat, short, img, st, regs, e1, e2,
                   FindModule(LookupAddress(fa)))

-----------------------------------------------------------------------------
(* src/src/unwinder.rs: Unwinder and UnwindIterator *)

NoIter ==
    [on |-> FALSE, how |-> "", addr |-> [kind |-> "ip", a |-> 0],
     regs |-> [ip |-> 0, sp |-> 0, bp |-> 0]]

\* an iterator that takes the snapshot's instruction pointer for a return
\* address
NewIteratorAtReturnAddress(how, regs) ==
    [on |-> TRUE, how |-> how, addr |-> [kind |-> "ra", a |-> regs.ip],
     regs |-> regs]

\* iter_frames reads ip, sp and bp from the CPU; iter_frames_with_regs is
\* handed a snapshot.  Both start at FrameAddress::InstructionPointer(ip).
NewIterator(how, regs) ==
    [on |-> TRUE, how |-> how, addr |-> [kind |-> "ip", a |-> regs.ip],
     regs |-> regs]

\* a try_next without the NonZeroU64 filter: Some(0) is yielded as a frame
TryNextKeepsZero(it, u) ==
    IF u.kind = "err"
    THEN [it |-> [it EXCEPT !.regs = u.regs], eng |-> u,
          out |-> [kind |-> "err", val |-> 0]]
    ELSE IF u.kind = "some"
         THEN [it |-> [it EXCEPT !.regs = u.regs,
                                 !.addr = [kind |-> "ra", a |-> u.val]],
               eng |-> u, out |-> [kind |-> "addr", val |-> u.val]]
         ELSE [it |-> [it EXCEPT !.regs = u.regs], eng |-> u,
               out |-> [kind |-> "end", val |-> 0]]

\* a try_next that records the yielded address as an instruction pointer
TryNextAsInstructionPointer(it, u) ==
    IF u.kind = "err"
    THEN [it |-> [it EXCEPT !.regs = u.regs], eng |-> u,
          out |-> [kind |-> "err", val |-> 0]]
    ELSE IF u.kind = "some" /\ u.val # 0
         THEN [it |-> [it EXCEPT !.regs = u.regs,
                                 !.addr = [kind |-> "ip", a |-> u.val]],
               eng |-> u, out |-> [kind |-> "addr", val |-> u.val]]
         ELSE [it |-> [it EXCEPT !.regs = u.regs], eng |-> u,
               out |-> [kind |-> "end", val |-> 0]]

\* try_next(): an engine error is returned as it is; Some(a) with a # 0
\* becomes the new frame address and is yielded; None and Some(0) end the
\* sequence.  u is what unwind_frame returned (it has written the
\* registers); the result is [it, out, eng].
TryNextResult(it, u) ==
    IF u.kind = "err"
    THEN [it |-> [it EXCEPT !.regs = u.regs], eng |-> u,
          out |-> [kind |-> "err", val |-> 0]]
    ELSE IF u.kind = "some" /\ u.val # 0
         THEN [it |-> [it EXCEPT !.regs = u.regs,
                                 !.addr = [kind |-> "ra", a |-> u.val]],
               eng |-> u, out |-> [kind |-> "addr", val |-> u.val]]
         ELSE [it |-> [it EXCEPT !.regs = u.regs], eng |-> u,
               out |-> [kind |-> "end", val |-> 0]]

try_next(plat, short, img, st, it, e1, e2) ==
    TryNextResult(it, unwind_frame(plat, short, img, st, it.addr, it.regs, e1, e2))

-----------------------------------------------------------------------------
(* SpecUnwind: one iterator over one stack image.                          *)

NoPull ==
    [n |-> 0, from |-> [kind |-> "ip", a |-> 0], eng |-> "", engVal |-> 0,
     why |-> "", out |-> "", val |-> 0, reads |-> <<>>, afterErr |-> FALSE,
     afterEnd |-> FALSE, createErr |-> FALSE, before |-> <<>>]

IterFrames ==
    /\ ~iter.on
    /\ \E how \in {"iter_frames", "iter_frames_with_regs"} :
          iter' = NewIterator(how, SnapshotRegs(image))
    /\ UNCHANGED <<vvars, image, yielded, ulog, faulted, ovars, xvars>>

ReadLog(r) ==
    [addr |-> r.addr, probe |-> r.probe, valid |-> r.valid, deref |-> r.deref]

TryNext ==
    /\ iter.on
    /\ ulog.n < MaxPulls
    /\ \E e1 \in Envs, e2 \in Envs :
          \E t \in {try_next(platform, shortWrites, image, VState, iter, e1, e2)} :
             /\ iter' = t.it
             /\ kern' = t.eng.st.k
             /\ pipes' = t.eng.st.pipes
             /\ owned' = t.eng.st.owned
             /\ yielded' = IF t.out.kind = "addr"
                           THEN Append(yielded, t.out.val) ELSE yielded
             /\ ulog' = [n |-> ulog.n + 1, from |-> iter.addr,
                         eng |-> t.eng.kind, engVal |-> t.eng.val,
                         why |-> t.eng.why, out |-> t.out.kind,
                         val |-> t.out.val,
                         reads |-> [i \in DOMAIN t.eng.reads |->
                                        ReadLog(t.eng.reads[i])],
                         afterErr |-> ulog.afterErr \/ ulog.out = "err",
                         afterEnd |-> ulog.afterEnd \/ ulog.out = "end",
                         createErr |-> \E i \in DOMAIN t.eng.reads :
                                          t.eng.reads[i].createErr,
                         before |-> yielded]
             /\ faulted' = (faulted \/ \E i \in DOMAIN t.eng.reads :
                                          t.eng.reads[i].fault)
             /\ vhist' = vhist \cup (IF \E i \in DOMAIN t.eng.reads :
                                           t.eng.reads[i].createErr
                                     THEN {"create_failed"} ELSE {})
    /\ UNCHANGED <<platform, shortWrites, vlog, vcalls, image, ovars, xvars>>

UnwindNext == IterFrames \/ TryNext


-----------------------------------------------------------------------------
(* What the dynamic loader reports.                                        *)

\* modules reported by the loader in one process, at most
MaxMods == 2
\* get_objects / find_objects / Unwinder::new calls per thread, at most
MaxGets == 1

Threads == {"t1", "t2"}

\* p_flags bits (src/src/object/dl_iterate_phdr.rs)
PF_X == 1
PF_R == 4

Seg(tag, flags, vaddr, memsz, fileoff, filesize) ==
    [tag |-> tag, flags |-> flags, vaddr |-> vaddr, memsz |-> memsz,
     fileoff |-> fileoff, filesize |-> filesize]

\* A reported module: name ("" for the main executable, "null" for a null
\* name pointer), whether the current-executable query works, the load
\* address (dlpi_addr, or the vmaddr slide), the state of the Mach-O
\* header, the program headers / segment commands, whether the file on
\* disk can be opened, mapped and parsed, and whether the exception-frame
\* header in memory parses and points directly at the call-frame records.
Mod(id, name, exeOk, addr, hdr, segs, fileOk, scanOk) ==
    [id |-> id, name |-> name, exeOk |-> exeOk, addr |-> addr, hdr |-> hdr,
     segs |-> segs, fileOk |-> fileOk, scanOk |-> scanOk]

ElfText(v) == Seg("PT_LOAD", PF_X + PF_R, v, 4, 0, 0)
ElfData(v) == Seg("PT_LOAD", PF_R + 2, v, 4, 0, 0)
ElfEh(v) == Seg("PT_GNU_EH_FRAME", PF_R, v, 2, 0, 0)

ElfPool ==
    { Mod("exe", "", TRUE, 64, "ok", <<ElfText(4), ElfEh(8), ElfData(12)>>, TRUE, TRUE),
      Mod("exe_nopath", "", FALSE, 64, "ok", <<ElfText(4), ElfEh(8)>>, TRUE, TRUE),
      Mod("vdso", "path", TRUE, 96, "ok", <<ElfText(0), ElfEh(4)>>, FALSE, TRUE),
      Mod("libdata", "path", TRUE, 16, "ok", <<ElfData(0)>>, TRUE, FALSE),
      Mod("libnoeh", "path", TRUE, 48, "ok", <<ElfText(0), ElfData(4)>>, TRUE, FALSE),
      Mod("libtwo", "path", TRUE, 80, "ok",
          <<ElfText(0), ElfEh(4), ElfText(8), ElfEh(12)>>, TRUE, TRUE),
      Mod("libgone", "path", TRUE, 32, "ok", <<ElfText(0), ElfEh(4)>>, FALSE, FALSE) }

MachText(v, off, fsz) == Seg("__TEXT", PF_X + PF_R, v, 4, off, fsz)
MachData(v) == Seg("__DATA", PF_R + 2, v, 4, 8, 4)

MachPool ==
    { Mod("exe", "path", TRUE, 16, "ok",
          <<Seg("__PAGEZERO", 0, 0, 4, 0, 0), MachText(4, 0, 4), MachData(8)>>,
          TRUE, FALSE),
      Mod("dylib_a", "path", TRUE, 48, "ok", <<MachText(0, 0, 4), MachData(4)>>,
          TRUE, FALSE),
      Mod("dylib_b", "path", TRUE, 64, "ok", <<MachText(0, 0, 4)>>, TRUE, FALSE),
      Mod("cached", "path", TRUE, 80, "ok", <<MachText(8, 4, 4)>>, TRUE, FALSE),
      Mod("noname", "null", TRUE, 96, "ok", <<MachText(0, 0, 4)>>, TRUE, FALSE),
      Mod("magic32", "path", TRUE, 112, "badmagic", <<MachText(0, 0, 4)>>, TRUE, FALSE),
      Mod("nocmds", "path", TRUE, 128, "badcmds", <<MachText(0, 0, 4)>>, TRUE, FALSE),
      Mod("notext", "path", TRUE, 144, "ok", <<MachData(0)>>, TRUE, FALSE),
      Mod("nofile", "path", TRUE, 160, "ok", <<MachText(0, 0, 4)>>, FALSE, FALSE),
      Mod("dylib_two", "path", TRUE, 176, "ok",
          <<MachText(4, 0, 4), MachData(8), MachText(12, 8, 4)>>, TRUE, FALSE) }

\* the loader reports each loaded module once, and one main executable
LoaderLists(pool) ==
    {l \in UNION {[1 .. n -> pool] : n \in 1 .. MaxMods} :
        \A i, j \in DOMAIN l : i # j => l[i].addr # l[j].addr}

-----------------------------------------------------------------------------
(* src/src/object.rs, src/src/object/dl_iterate_phdr.rs, macos.rs *)

NoSeg == [some |-> FALSE, p_vaddr |-> 0, p_memsz |-> 0]
SomeSeg(sg) == [some |-> TRUE, p_vaddr |-> sg.vaddr, p_memsz |-> sg.memsz]

\* the path of a reported ELF module: env::current_exe() for the empty name
ElfPath(d) ==
    IF d.name = "" THEN [ok |-> d.exeOk, path |-> d.id]
    ELSE [ok |-> TRUE, path |-> d.id]

\* the loop over the program headers of dl_iterate_phdr.rs: every r-x
\* PT_LOAD is stored into text, every PT_GNU_EH_FRAME into eh_frame_hdr
RECURSIVE ScanPhdrs(_, _, _)
ScanPhdrs(phdrs, i, acc) ==
    IF i > Len(phdrs) THEN acc
    ELSE LET ph == phdrs[i]
         IN ScanPhdrs(phdrs, i + 1,
              IF ph.tag = "PT_LOAD" /\ ph.flags = PF_X + PF_R
              THEN [acc EXCEPT !.text = SomeSeg(ph)]
              ELSE IF ph.tag = "PT_GNU_EH_FRAME"
                   THEN [acc EXCEPT !.eh_frame_hdr = SomeSeg(ph)]
                   ELSE acc)

\* ObjectMmap::new of dl_iterate_phdr.rs: the body is commented out
ObjectMmapNewPhdr(d) == FALSE

\* ObjectMmap::new of object.rs: open, map and parse the file
ObjectMmapNew(d) == d.fileOk

\* find_eh_frame: None when the header does not parse or its pointer is
\* indirect, else the range found by walking the records
find_eh_frame(d, seg) == d.scanOk

Skip(r) == [ret |-> r, push |-> <<>>]

\* iterate_phdr_cb of dl_iterate_phdr.rs.  A pushed Object records the
\* text segment and its unwind data; for the live-scan variant
\* eh_frame_hdr is the p_vaddr of the header segment handed to
\* find_eh_frame (EhFrameData.eh_frame_hdr starts at base_addr + p_vaddr).
iterate_phdr_cb(d) ==
    LET p == ElfPath(d)
        sc == ScanPhdrs(d.segs, 1, [text |-> NoSeg, eh_frame_hdr |-> NoSeg])
        obj(u) == [id |-> p.path, base_addr |-> d.addr,
                   text |-> [p_vaddr |-> sc.text.p_vaddr,
                             p_memsz |-> sc.text.p_memsz],
                   unwind |-> u,
                   eh_frame_hdr |-> IF u = "EhFrame" THEN sc.eh_frame_hdr.p_vaddr
                                    ELSE -1]
    IN IF ~p.ok THEN Skip(0)
       ELSE IF ~sc.text.some THEN Skip(0)
       ELSE IF ObjectMmapNewPhdr(d) THEN [ret |-> 0, push |-> <<obj("Mmap")>>]
       ELSE IF sc.eh_frame_hdr.some /\ find_eh_frame(d, sc.eh_frame_hdr)
            THEN [ret |-> 0, push |-> <<obj("EhFrame")>>]
       ELSE Skip(0)

\* the loop over the program headers of object.rs: text only
RECURSIVE ScanPhdrsOld(_, _, _)
ScanPhdrsOld(phdrs, i, text) ==
    IF i > Len(phdrs) THEN text
    ELSE LET ph == phdrs[i]
         IN ScanPhdrsOld(phdrs, i + 1,
              IF ph.tag = "PT_LOAD" /\ ph.flags = PF_X + PF_R
              THEN SomeSeg(ph) ELSE text)

\* iterate_phdr_cb of object.rs
iterate_phdr_cb_old(d) ==
    LET p == ElfPath(d)
        text == ScanPhdrsOld(d.segs, 1, NoSeg)
    IN IF ~p.ok THEN Skip(0)
       ELSE IF ~text.some THEN Skip(0)
       ELSE IF ObjectMmapNew(d)
            THEN [ret |-> 0,
                  push |-> << [id |-> p.path, base_addr |-> d.addr,
                               text |-> [p_vaddr |-> text.p_vaddr,
                                         p_memsz |-> text.p_memsz],
                               unwind |-> "Mmap", eh_frame_hdr |-> -1] >>]
       ELSE Skip(0)

\* the loop over the load commands of macos.rs load_object
RECURSIVE ScanCmds(_, _, _)
ScanCmds(cmds, i, acc) ==
    IF i > Len(cmds) THEN acc
    ELSE LET sg == cmds[i]
         IN ScanCmds(cmds, i + 1,
              IF sg.tag = "__TEXT"
              THEN [text |-> SomeSeg(sg),
                    text_fileoff_zero |->
                        (acc.text_fileoff_zero \/ (sg.fileoff = 0 /\ sg.filesize > 0))]
              ELSE acc)

\* load_object(i) of macos.rs: the base address recorded is the stated
\* vmaddr of __TEXT and the text offset is zero; the slide is not read
load_object(d) ==
    IF d.name = "null" THEN Skip(0)
    ELSE IF d.hdr # "ok" THEN Skip(0)
    ELSE LET sc == ScanCmds(d.segs, 1, [text |-> NoSeg, text_fileoff_zero |-> FALSE])
         IN IF ~sc.text.some THEN Skip(0)
            ELSE IF ~ObjectMmapNew(d) THEN Skip(0)
            ELSE [ret |-> 0,
                  push |-> << [id |-> d.id, base_addr |-> sc.text.p_vaddr,
                               text |-> [p_vaddr |-> 0,
                                         p_memsz |-> sc.text.p_memsz],
                               unwind |-> "Mmap", eh_frame_hdr |-> -1] >>]

\* The sections of a module's file on disk, as object's section_by_name
\* and file_range give them: (offset, size) in the file, or nothing.  The
\* files differ: both call-frame sections, the body only, or neither.
NoRange == [some |-> FALSE, start |-> 0, end |-> 0]

FileRange(id, section_name) ==
    CASE id \in {"exe", "exe_nopath", "libtwo", "cached", "dylib_two"} ->
            IF section_name = ".eh_frame_hdr" THEN [some |-> TRUE, off |-> 8, size |-> 2]
            ELSE IF section_name = ".eh_frame" THEN [some |-> TRUE, off |-> 12, size |-> 6]
            ELSE [some |-> FALSE, off |-> 0, size |-> 0]
      [] id \in {"libnoeh", "dylib_a"} ->
            IF section_name = ".eh_frame" THEN [some |-> TRUE, off |-> 12, size |-> 6]
            ELSE [some |-> FALSE, off |-> 0, size |-> 0]
      [] OTHER -> [some |-> FALSE, off |-> 0, size |-> 0]

\* section_range: file_range().map(|(start, end)| start..(start + end))
section_range(id, section_name) ==
    IF FileRange(id, section_name).some
    THEN [some |-> TRUE, start |-> FileRange(id, section_name).off,
          end |-> FileRange(id, section_name).off + FileRange(id, section_name).size]
    ELSE NoRange

\* range_data: &mmap[start..end], the bytes of the file in that range
range_data(id, range) == [file |-> id, start |-> range.start, end |-> range.end]

NoData == [file |-> "", start |-> 0, end |-> 0]

\* where the kernel has placed the mapping of the module's file: free
\* address space, apart from the loaded image; and the file's length
FileNames ==
    <<"exe", "exe_nopath", "vdso", "libdata", "libnoeh", "libtwo", "libgone",
      "dylib_a", "dylib_b", "cached", "noname", "magic32", "nocmds", "notext",
      "nofile", "dylib_two">>
MmapLen(o) == 5 * PtrSize
MmapPtr(o) ==
    2 * (2 ^ AddrBits)
    + MmapLen(o) * (CHOOSE i \in DOMAIN FileNames : FileNames[i] = o.id)

\* to_module of dl_iterate_phdr.rs: the module spans the runtime text
\* range; the mapped-file arm matches on (header, body); the live-scan arm
\* is todo!() and panics
to_module(o) ==
    IF o.unwind = "Mmap"
    THEN [panic |-> FALSE,
          module |->
            [name |-> o.id,
             avma_range |-> [lo |-> o.base_addr + o.text.p_vaddr,
                             hi |-> o.base_addr + o.text.p_vaddr + o.text.p_memsz],
             base_avma |-> o.base_addr,
             unwind_data |->
               IF section_range(o.id, ".eh_frame_hdr").some
                  /\ section_range(o.id, ".eh_frame").some
               THEN [kind |-> "EhFrameHdrAndEhFrame",
                     hdr |-> range_data(o.id, section_range(o.id, ".eh_frame_hdr")),
                     body |-> range_data(o.id, section_range(o.id, ".eh_frame"))]
               ELSE IF ~section_range(o.id, ".eh_frame_hdr").some
                       /\ section_range(o.id, ".eh_frame").some
                    THEN [kind |-> "EhFrame", hdr |-> NoData,
                          body |-> range_data(o.id, section_range(o.id, ".eh_frame"))]
               ELSE [kind |-> "None", hdr |-> NoData, body |-> NoData]]]
    ELSE [panic |-> TRUE, module |-> <<>>]

\* to_module of object.rs: the module spans the file mapping, and the
\* match is on (header, header)
to_module_old(o) ==
    [panic |-> FALSE,
     module |->
       [name |-> o.id,
        avma_range |-> [lo |-> MmapPtr(o), hi |-> MmapPtr(o) + MmapLen(o)],
        base_avma |-> MmapPtr(o),
        unwind_data |->
          IF section_range(o.id, ".eh_frame_hdr").some
             /\ section_range(o.id, ".eh_frame_hdr").some
          THEN [kind |-> "EhFrameHdrAndEhFrame",
                hdr |-> range_data(o.id, section_range(o.id, ".eh_frame_hdr")),
                body |-> range_data(o.id, section_range(o.id, ".eh_frame_hdr"))]
          ELSE IF ~section_range(o.id, ".eh_frame_hdr").some
                  /\ section_range(o.id, ".eh_frame_hdr").some
               THEN [kind |-> "EhFrame", hdr |-> NoData,
                     body |-> range_data(o.id, section_range(o.id, ".eh_frame_hdr"))]
          ELSE [kind |-> "None", hdr |-> NoData, body |-> NoData]]]

\* the to_module the build named by v compiles: macos.rs uses the Object
\* of object.rs
ToModule(v, o) ==
    IF v = "dl_iterate_phdr" THEN to_module(o) ELSE to_module_old(o)

\* one step of the enumeration in the build named by v
Discover(v, d) ==
    CASE v = "dl_iterate_phdr" -> iterate_phdr_cb(d)
      [] v = "object" -> iterate_phdr_cb_old(d)
      [] OTHER -> load_object(d)

\* a get_objects that calls find_objects each time instead of the cell
get_objects_uncached(lz) == "init"

\* static OBJECTS: Lazy<Vec<Object>> = Lazy::new(find_objects); get_objects
\* dereferences it.  What a caller does given the state of the cell: run
\* the initialiser, wait for the thread running it, or read the value.
get_objects(lz) ==
    CASE lz = "uninit" -> "init"
      [] lz = "running" -> "wait"
      [] OTHER -> "read"

Cached(v) == v \in {"dl_iterate_phdr", "macos"}

-----------------------------------------------------------------------------
(* SpecObjects: threads ask for the module list.                           *)

Idle ==
    [pc |-> "idle", via |-> "", idx |-> 0, buf |-> <<>>, ret |-> <<>>,
     got |-> FALSE, calls |-> 0, mods |-> <<>>, built |-> FALSE]

\* where a caller goes once it holds the list: Unwinder::new goes on to
\* its loop over the objects
AfterGet(via) == IF via = "Unwinder::new" THEN "add" ELSE "idle"

\* the entry points: get_objects() and Unwinder::new() (which starts with
\* get_objects()) in the cached builds, find_objects() of object.rs
Entries(v) ==
    IF Cached(v) THEN {"get_objects", "Unwinder::new"} ELSE {"find_objects"}

\* a thread calls an entry point
Call(t) ==
    /\ thr[t].pc = "idle"
    /\ thr[t].calls < MaxGets
    /\ \E via \in Entries(variant) :
          LET todo == IF Cached(variant) THEN get_objects(lazy) ELSE "init"
          IN CASE todo = "init" ->
                    /\ thr' = [thr EXCEPT ![t] = [@ EXCEPT !.pc = "scan", !.via = via,
                                                            !.idx = 1, !.buf = <<>>]]
                    /\ lazy' = IF Cached(variant) THEN "running" ELSE lazy
                    /\ scans' = IF Cached(variant) THEN scans + 1 ELSE scans
               [] todo = "wait" ->
                    /\ thr' = [thr EXCEPT ![t] = [@ EXCEPT !.pc = "wait", !.via = via]]
                    /\ UNCHANGED <<lazy, scans>>
               [] OTHER ->
                    /\ thr' = [thr EXCEPT ![t] = [@ EXCEPT !.pc = AfterGet(via),
                                                            !.via = via, !.idx = 1,
                                                            !.ret = objects,
                                                            !.got = TRUE,
                                                            !.calls = @ + 1]]
                    /\ UNCHANGED <<lazy, scans>>
    /\ UNCHANGED <<vvars, uvars, variant, loader, objects, cbrets, xvars>>

\* the enumeration hands the next module to the callback; a non-zero
\* return value would end the enumeration
ScanStep(t) ==
    /\ thr[t].pc = "scan"
    /\ thr[t].idx <= Len(loader)
    /\ \E r \in {Discover(variant, loader[thr[t].idx])} :
          /\ thr' = [thr EXCEPT ![t] =
                        [@ EXCEPT !.buf = @ \o r.push,
                                  !.idx = IF r.ret = 0 THEN @ + 1
                                          ELSE Len(loader) + 1]]
          /\ cbrets' = cbrets \cup {r.ret}
    /\ UNCHANGED <<vvars, uvars, variant, loader, lazy, objects, scans, xvars>>

\* find_objects returns; in the cached builds the cell takes the value
ScanDone(t) ==
    /\ thr[t].pc = "scan"
    /\ thr[t].idx > Len(loader)
    /\ thr' = [thr EXCEPT ![t] = [@ EXCEPT !.pc = AfterGet(thr[t].via), !.idx = 1,
                                            !.ret = thr[t].buf,
                                            !.got = TRUE, !.calls = @ + 1]]
    /\ IF Cached(variant)
       THEN lazy' = "done" /\ objects' = thr[t].buf
       ELSE UNCHANGED <<lazy, objects>>
    /\ UNCHANGED <<vvars, uvars, variant, loader, scans, cbrets, xvars>>

\* a thread that waited for the initialiser reads the value
Wake(t) ==
    /\ thr[t].pc = "wait"
    /\ lazy = "done"
    /\ thr' = [thr EXCEPT ![t] = [@ EXCEPT !.pc = AfterGet(thr[t].via), !.idx = 1,
                                            !.ret = objects,
                                            !.got = TRUE, !.calls = @ + 1]]
    /\ UNCHANGED <<vvars, uvars, variant, loader, lazy, objects, scans, cbrets, xvars>>

\* Unwinder::new: unwinder.add_module(obj.to_module()) for the next
\* object; a panic in to_module unwinds out of Unwinder::new
AddModule(t) ==
    /\ thr[t].pc = "add"
    /\ thr[t].idx <= Len(thr[t].ret)
    /\ \E m \in {ToModule(variant, thr[t].ret[thr[t].idx])} :
          thr' = [thr EXCEPT ![t] =
                     IF m.panic THEN [@ EXCEPT !.pc = "panic"]
                     ELSE [@ EXCEPT !.mods = Append(@, m.module),
                                    !.idx = @ + 1]]
    /\ UNCHANGED <<vvars, uvars, variant, loader, lazy, objects, scans, cbrets, xvars>>

\* Unwinder::new returns Unwinder { unwinder }
NewDone(t) ==
    /\ thr[t].pc = "add"
    /\ thr[t].idx > Len(thr[t].ret)
    /\ thr' = [thr EXCEPT ![t] = [@ EXCEPT !.pc = "idle", !.built = TRUE]]
    /\ UNCHANGED <<vvars, uvars, variant, loader, lazy, objects, scans, cbrets, xvars>>

ObjectsNext ==
    \E t \in Threads :
        \/ Call(t) \/ ScanStep(t) \/ ScanDone(t) \/ Wake(t)
        \/ AddModule(t) \/ NewDone(t)

-----------------------------------------------------------------------------
(* src/src/object/dl_iterate_phdr.rs: find_eh_frame, the walk over the     *)
(* call-frame records in process memory.  Memory is an array of 32-bit     *)
(* words starting at eh_frame_ptr; what lies beyond it is not mapped.      *)

\* records before the terminator of a region, at most
MaxRecs == 2
\* words mapped after the terminator, at most
MaxTail == 2

\* size of the u32 length field
WordSize == 4
\* width of the length field in the model (32 in the code)
LenBits == 8
\* the length value that announces a 64-bit length: 0xffffffff, all ones
ExtMarker == (2 ^ LenBits) - 1
\* size of the u64 extended length
ExtSize == 2 * WordSize
\* the content of a record's body: never read as a length by a walk that
\* steps from record to record
Junk == 2 * WordSize

RECURSIVE Concat(_)
Concat(ss) == IF ss = <<>> THEN <<>> ELSE Head(ss) \o Concat(Tail(ss))

\* a record of len body bytes: the length field, then the body
RecWords(r) ==
    (IF r.ext THEN <<ExtMarker, r.len, 0>> ELSE <<r.len>>)
    \o [i \in 1 .. (r.len \div WordSize) |-> Junk]

RecSet == [len : {WordSize, 2 * WordSize}, ext : BOOLEAN]
RecLists == UNION {[1 .. n -> RecSet] : n \in 0 .. MaxRecs}
\* what follows the region in memory: zero padding or the next section
TailLists == UNION {[1 .. n -> {0, WordSize}] : n \in 0 .. MaxTail}

\* Pointer::Direct(ptr): where the header says the records start
EhFramePtr == CodeLo

\* the scan before find_eh_frame is called
NoScan ==
    [pc |-> "idle", mem |-> <<>>, eh_frame_ptr |-> 0, term |-> 0,
     cie_ptr |-> 0, fde_ptr |-> 0, lenReads |-> {}, steps |-> <<>>,
     eh_frame_end |-> 0]

\* find_eh_frame has parsed the header: cie_ptr = eh_frame_ptr.  term is
\* the address of the region's zero-length record.
StartScan(recs, tail) ==
    [pc |-> "outer",
     mem |-> Concat([i \in DOMAIN recs |-> RecWords(recs[i])]) \o <<0>> \o tail,
     eh_frame_ptr |-> EhFramePtr,
     term |-> EhFramePtr
              + WordSize * Len(Concat([i \in DOMAIN recs |-> RecWords(recs[i])])),
     cie_ptr |-> EhFramePtr, fde_ptr |-> 0, lenReads |-> {}, steps |-> <<>>,
     eh_frame_end |-> 0]

Mapped(sc, a) ==
    /\ a >= sc.eh_frame_ptr
    /\ a < sc.eh_frame_ptr + WordSize * Len(sc.mem)
    /\ (a - sc.eh_frame_ptr) % WordSize = 0

\* *(a as *const u32)
ReadU32(sc, a) == sc.mem[((a - sc.eh_frame_ptr) \div WordSize) + 1]
\* *(a as *const u64), little endian
ReadU64(sc, a) == ReadU32(sc, a) + (2 ^ LenBits) * ReadU32(sc, a + WordSize)

\* the read of a record's length at a: [ok, zero, size], size being the
\* bytes to step over (length field, extended length, body)
RecordAt(sc, a) ==
    IF ~Mapped(sc, a) THEN [ok |-> FALSE, zero |-> FALSE, size |-> 0]
    ELSE IF ReadU32(sc, a) = 0 THEN [ok |-> TRUE, zero |-> TRUE, size |-> 0]
    ELSE IF ReadU32(sc, a) = ExtMarker
         THEN IF Mapped(sc, a + WordSize) /\ Mapped(sc, a + 2 * WordSize)
              THEN [ok |-> TRUE, zero |-> FALSE,
                    size |-> WordSize + ExtSize + ReadU64(sc, a + WordSize)]
              ELSE [ok |-> FALSE, zero |-> FALSE, size |-> 0]
    ELSE [ok |-> TRUE, zero |-> FALSE, size |-> WordSize + ReadU32(sc, a)]

Stepped(sc, from, r) ==
    Append(sc.steps, [from |-> from, size |-> r.size])

\* one turn of the outer loop: the length at cie_ptr; zero ends the walk
\* with eh_frame = eh_frame_ptr .. cie_ptr + 4
ScanOuterStep(sc, r) ==
    IF ~r.ok THEN [sc EXCEPT !.pc = "fault", !.lenReads = @ \cup {sc.cie_ptr}]
    ELSE IF r.zero
         THEN [sc EXCEPT !.pc = "done", !.lenReads = @ \cup {sc.cie_ptr},
                         !.eh_frame_end = sc.cie_ptr + WordSize]
    ELSE [sc EXCEPT !.pc = "inner", !.lenReads = @ \cup {sc.cie_ptr},
                    !.fde_ptr = sc.cie_ptr + r.size,
                    !.steps = Stepped(sc, sc.cie_ptr, r)]

\* one turn of the inner loop: the length at fde_ptr; zero sets
\* cie_ptr = fde_ptr + 4 and goes back to the outer loop
ScanInnerStep(sc, r) ==
    IF ~r.ok THEN [sc EXCEPT !.pc = "fault", !.lenReads = @ \cup {sc.fde_ptr}]
    ELSE IF r.zero
         THEN [sc EXCEPT !.pc = "outer", !.lenReads = @ \cup {sc.fde_ptr},
                         !.cie_ptr = sc.fde_ptr + WordSize]
    ELSE [sc EXCEPT !.lenReads = @ \cup {sc.fde_ptr},
                    !.fde_ptr = sc.fde_ptr + r.size,
                    !.steps = Stepped(sc, sc.fde_ptr, r)]

(* SpecScan: find_eh_frame walks one region. *)

ScanOuter ==
    /\ scan.pc = "outer"
    /\ scan' = ScanOuterStep(scan, RecordAt(scan, scan.cie_ptr))
    /\ UNCHANGED <<vvars, uvars, ovars, vt, fdOwner, races>>

ScanInner ==
    /\ scan.pc = "inner"
    /\ scan' = ScanInnerStep(scan, RecordAt(scan, scan.fde_ptr))
    /\ UNCHANGED <<vvars, uvars, ovars, vt, fdOwner, races>>

ScanNext == ScanOuter \/ ScanInner

-----------------------------------------------------------------------------
(* SpecThreads: several threads call validate against one descriptor       *)
(* table.  Each system call of validate and open_pipe is one step.         *)

\* validate calls per thread, at most
MaxThreadCalls == 3

\* MEM_VALIDATE_PIPE of a thread that has not called validate yet
ThreadIdle == [pc |-> "idle", pipes |-> PipesInit, addr |-> 0, calls |-> 0]

\* an address that cannot be read and one that can
ThreadAddrs == {NullAddr, StackLo}

\* the call t makes on descriptor fd, when fd is open and is not an end of
\* a pipe t created
Foreign(t, op, fd) ==
    IF IsOpen(kern, fd) /\ fdOwner[fd] # t
    THEN {[t |-> t, op |-> op, fd |-> fd, owner |-> fdOwner[fd]]}
    ELSE {}

\* the thread calls validate(addr)
TValidate(t) ==
    /\ vt[t].pc = "idle"
    /\ vt[t].calls < MaxThreadCalls
    /\ \E addr \in ThreadAddrs :
          vt' = [vt EXCEPT ![t] = [@ EXCEPT !.pc = "read", !.addr = addr]]
    /\ UNCHANGED <<vvars, uvars, ovars, scan, fdOwner, races>>

\* the drain: read(pipes[0], ..)
TRead(t) ==
    /\ vt[t].pc = "read"
    /\ \E d \in {DrainPipe(kern, vt[t].pipes[1])} :
          /\ kern' = d.k
          /\ vt' = [vt EXCEPT ![t] = [@ EXCEPT !.pc = IF d.valid THEN "write"
                                                      ELSE "close0"]]
    /\ races' = races \cup Foreign(t, "read", vt[t].pipes[1])
    /\ UNCHANGED <<platform, pipes, owned, vlog, vcalls, vhist, shortWrites,
                   uvars, ovars, scan, fdOwner>>

\* open_pipe: close(pipes[0]), then close(pipes[1]), results ignored
TClose(t) ==
    /\ vt[t].pc \in {"close0", "close1"}
    /\ \E fd \in {IF vt[t].pc = "close0" THEN vt[t].pipes[1] ELSE vt[t].pipes[2]} :
          /\ kern' = SysClose(kern, fd).k
          /\ fdOwner' = [g \in FdRange |->
                            IF g = fd /\ IsOpen(kern, fd) THEN "none" ELSE fdOwner[g]]
          /\ races' = races \cup Foreign(t, "close", fd)
    /\ vt' = [vt EXCEPT ![t] = [@ EXCEPT !.pc = IF vt[t].pc = "close0" THEN "close1"
                                                ELSE "create"]]
    /\ UNCHANGED <<platform, pipes, owned, vlog, vcalls, vhist, shortWrites,
                   uvars, ovars, scan>>

\* open_pipe: create_pipe()?; the ends are stored on success, and on
\* failure validate returns false with the old numbers still stored
TCreate(t) ==
    /\ vt[t].pc = "create"
    /\ \E env \in Envs :
          \E cp \in {create_pipe(platform, kern, env.create)} :
             /\ kern' = cp.k
             /\ fdOwner' = [g \in FdRange |-> IF g \in cp.made THEN t ELSE fdOwner[g]]
             /\ vt' = [vt EXCEPT ![t] =
                          IF cp.ok
                          THEN [@ EXCEPT !.pc = "write", !.pipes = <<cp.r, cp.w>>]
                          ELSE [@ EXCEPT !.pc = "idle", !.calls = @ + 1]]
    /\ UNCHANGED <<platform, pipes, owned, vlog, vcalls, vhist, shortWrites,
                   uvars, ovars, scan, races>>

\* the probe: write(pipes[1], addr, CHECK_LENGTH); validate returns
TWrite(t) ==
    /\ vt[t].pc = "write"
    /\ kern' = WriteProbe(kern, vt[t].pipes[2], vt[t].addr, shortWrites).k
    /\ races' = races \cup Foreign(t, "write", vt[t].pipes[2])
    /\ vt' = [vt EXCEPT ![t] = [@ EXCEPT !.pc = "idle", !.calls = @ + 1]]
    /\ UNCHANGED <<platform, pipes, owned, vlog, vcalls, vhist, shortWrites,
                   uvars, ovars, scan, fdOwner>>

ThreadsNext ==
    \E t \in Threads :
        TValidate(t) \/ TRead(t) \/ TClose(t) \/ TCreate(t) \/ TWrite(t)

-----------------------------------------------------------------------------
(* Properties of the address validator (SpecValidate).                     *)

\* the thread has no open pipe: never created, or closed by a re-creation
\* that failed
PipeMissing == ~IsOpen(kern, pipes[1])

ProbedReadable == Readable(vlog.addr, CHECK_LENGTH)

\* C1: on a thread where no pipe creation has failed, every validate call,
\* the first one included and whatever calls preceded it, returns true for
\* an address whose CHECK_LENGTH probed bytes are readable and false for
\* the null and the all-ones address.
C1_ValidateAnswers ==
    (vlog.n > 0 /\ "create_failed" \notin vhist) =>
        /\ ProbedReadable => vlog.res
        /\ vlog.addr \in {NullAddr, AllOnes} => ~vlog.res

\* a readable address reported true right after an unreadable one was
\* reported false
C1_Witness ==
    /\ vlog.n >= 2
    /\ "create_failed" \notin vhist
    /\ ProbedReadable /\ vlog.res
    /\ vlog.prevAddr \in {NullAddr, AllOnes} /\ ~vlog.prevRes

\* the descriptors the validator created and has not closed are at most
\* two, the two ends stored in the thread's pipe, and every pipe end open
\* in the process is one of them
NoDescriptorLeak ==
    /\ Cardinality(owned) <= 2
    /\ owned \subseteq {pipes[1], pipes[2]}
    /\ \A fd \in FdRange : kern.fds[fd].kind \in {"r", "w"} => fd \in owned

\* the call validated a readable address this thread has validated before
ValidatedAgain == vlog.n > 1 /\ vlog.addr \in vlog.seen /\ ProbedReadable

C10_FailedCreation ==
    vlog.n > 0 =>
        /\ vlog.createErr => (~vlog.res /\ PipeMissing)
        /\ ~vlog.hadPipe => vlog.reopened
        /\ ("create_failed" \in vhist /\ ~vlog.createErr)
              => (~PipeMissing /\ (ProbedReadable => vlog.res))

\* a readable address reported true by the call whose retry re-created the
\* pipe, after a call that failed to create it
C10_Witness ==
    /\ vlog.n >= 2
    /\ "create_failed" \in vhist
    /\ ~vlog.hadPipe /\ vlog.reopened /\ ~vlog.createErr
    /\ ProbedReadable /\ vlog.res /\ ~vlog.prevRes

\* C12: a validate call entered with the thread's pipe open and holding no
\* data counts the drain as a success: it neither closes nor re-creates
\* the pipe.
C12_EmptyPipeKept ==
    (vlog.n > 0 /\ vlog.emptyAtEntry) =>
        /\ ~vlog.reopened
        /\ vlog.shut = {}

-----------------------------------------------------------------------------
(* Properties of the frame iterator (SpecUnwind).                          *)

\* C3: in every read_stack call of a pull, the address handed to validate
\* is the given address rounded down to a multiple of 8; a dereference
\* happens only when validate returned true and reads exactly that address;
\* a false answer is the last read of the pull, which ends with an error;
\* unmapped memory is never dereferenced.
C3_ReadAfterValidate ==
    /\ ~faulted
    /\ \A i \in DOMAIN ulog.reads :
          LET r == ulog.reads[i]
          IN /\ r.probe = r.addr - (r.addr % 8)
             /\ r.deref # -1 => (r.valid /\ r.deref = r.probe)
             /\ ~r.valid => /\ r.deref = -1
                            /\ i = Len(ulog.reads)
                            /\ ulog.out = "err"

\* a pull that, after a frame was yielded, met an unreadable frame pointer
\* (the pipe being available) and ended with an error
C3_Witness ==
    /\ Len(yielded) >= 1
    /\ ulog.out = "err" /\ ~ulog.createErr
    /\ Len(ulog.reads) = 1 /\ ~ulog.reads[1].valid
    /\ ~faulted

\* C4: a pull returns an error exactly when the engine step failed;
\* end-of-sequence exactly when the engine found no caller or computed the
\* return address zero; and the address a exactly when the engine computed
\* the non-zero return address a, which is then the one address added to
\* the yielded sequence.
C4_ThreeOutcomes ==
    ulog.n > 0 =>
        /\ ulog.eng \in {"err", "none", "some"}
        /\ ulog.eng = "err" => ulog.out = "err"
        /\ (ulog.eng = "none" \/ (ulog.eng = "some" /\ ulog.engVal = 0))
              => ulog.out = "end"
        /\ (ulog.eng = "some" /\ ulog.engVal # 0)
              => (ulog.out = "addr" /\ ulog.val = ulog.engVal)
        /\ yielded = IF ulog.out = "addr" THEN Append(ulog.before, ulog.val)
                     ELSE ulog.before

\* the engine computed the return address zero after two frames were
\* yielded, and the pull ended the sequence
C4_Witness ==
    /\ ulog.eng = "some" /\ ulog.engVal = 0
    /\ ulog.out = "end"
    /\ Len(yielded) = 2

\* the non-zero return addresses of a well-formed image, innermost first
Expected(img) == [i \in 1 .. (img.depth - 1) |-> RetAddr(i)]

WellFormed == image.ending = "zero" /\ image.depth >= 1

\* the pulls up to the first end-of-sequence return no error, yield the
\* chain's non-zero return addresses in order, each once, and the pull
\* that meets the outermost frame's zero return address is the one that
\* returns end-of-sequence
WalkedInOrder ==
    /\ ulog.out # "err"
    /\ Len(yielded) <= image.depth - 1
    /\ yielded = SubSeq(Expected(image), 1, Len(yielded))
    /\ \A i, j \in DOMAIN yielded : i # j => yielded[i] # yielded[j]
    /\ ulog.out = "end" <=> ulog.n = image.depth
    /\ ulog.out = "addr" => Len(yielded) = ulog.n

C6_TerminalAfterError ==
    /\ ~(ulog.afterErr /\ ulog.out = "addr")
    /\ ulog.out = "err" => yielded = ulog.before

\* the first pull steps from InstructionPointer(ip) of the snapshot, looked
\* up exactly
FirstPullFromIp ==
    ulog'.n = 1 =>
        /\ ulog'.from = [kind |-> "ip", a |-> SnapshotRegs(image).ip]
        /\ LookupAddress(ulog'.from) = SnapshotRegs(image).ip

\* this pull steps from ReturnAddress(a), a being what the pull before it
\* yielded, looked up at a - 1
FromYieldedBefore ==
    /\ ulog.out = "addr"
    /\ ulog'.from = [kind |-> "ra", a |-> ulog.val]
    /\ ulog.val = yielded[Len(yielded)]
    /\ LookupAddress(ulog'.from) = ulog.val - 1

\* a pull that yields an address makes it the current frame address, a
\* pull that yields none leaves the current frame address as it was
AddrAfterPull ==
    /\ ulog'.out = "addr" => iter'.addr = [kind |-> "ra", a |-> ulog'.val]
    /\ ulog'.out # "addr" => iter'.addr = iter.addr

\* C16 as stated: the first pull steps from InstructionPointer(ip); every
\* later pull steps from ReturnAddress(a), a being the address the pull
\* immediately before it yielded; a pull that yields no address leaves the
\* current frame address unchanged.
C16_AsStated ==
    [][ulog'.n = ulog.n + 1 =>
          /\ FirstPullFromIp
          /\ ulog'.n > 1 => FromYieldedBefore
          /\ AddrAfterPull]_vars

\* C16 (amended): the first pull steps from InstructionPointer(ip), looked
\* up exactly; a later pull that follows a pull which yielded a steps from
\* ReturnAddress(a), looked up at a - 1; a later pull that follows a pull
\* which yielded no address steps from the frame address that pull stepped
\* from; a pull that yields no address leaves the current frame address
\* unchanged.
C16_FrameAddressOfEachPull ==
    [][ulog'.n = ulog.n + 1 =>
          /\ FirstPullFromIp
          /\ (ulog'.n > 1 /\ ulog.out = "addr") => FromYieldedBefore
          /\ (ulog'.n > 1 /\ ulog.out # "addr") => ulog'.from = ulog.from
          /\ AddrAfterPull]_vars

\* a third pull stepped from the return address the second had yielded and
\* yielded none, leaving the frame address where it was
C16_Witness ==
    /\ ulog.n >= 3 /\ Len(yielded) >= 2
    /\ ulog.from = [kind |-> "ra", a |-> yielded[Len(yielded)]]
    /\ ulog.out # "addr"
    /\ iter.addr = ulog.from

-----------------------------------------------------------------------------
(* Properties of the module registry (SpecObjects).                        *)

TextLo(o) == o.base_addr + o.text.p_vaddr
TextHi(o) == o.base_addr + o.text.p_vaddr + o.text.p_memsz

SortedByBase(l) ==
    \A i, j \in DOMAIN l : i < j => l[i].base_addr <= l[j].base_addr

TextDisjoint(l) ==
    \A i, j \in DOMAIN l :
        i # j => (TextHi(l[i]) <= TextLo(l[j]) \/ TextHi(l[j]) <= TextLo(l[i]))

\* C7: every list a caller has received is sorted by ascending base
\* address and its modules' runtime text ranges do not overlap.
C7_SortedDisjoint ==
    \A t \in Threads : thr[t].got => (SortedByBase(thr[t].ret) /\ TextDisjoint(thr[t].ret))

\* C8: in the builds with the OBJECTS cell, the scan is started at most
\* once, exactly once when the cell holds its value; every list a caller
\* has received is the value of the cell; and the value, once built, never
\* changes.
C8_ScanOnce ==
    /\ [](Cached(variant) =>
            /\ scans <= 1
            /\ lazy = "done" => scans = 1
            /\ \A t \in Threads :
                  thr[t].got => (lazy = "done" /\ thr[t].ret = objects))
    /\ [][(Cached(variant) /\ lazy = "done")
            => (lazy' = "done" /\ objects' = objects /\ scans' = scans)]_vars

\* both threads hold the same non-empty list, one through Unwinder::new
\* and one through get_objects, after a single scan
C8_Witness ==
    /\ Cached(variant)
    /\ thr["t1"].got /\ thr["t2"].got
    /\ thr["t1"].via = "Unwinder::new" /\ thr["t2"].via = "get_objects"
    /\ thr["t1"].ret = thr["t2"].ret /\ Len(objects) >= 1
    /\ scans = 1

HasSeg(d, tag) == \E i \in DOMAIN d.segs : d.segs[i].tag = tag

HasElfText(d) ==
    \E i \in DOMAIN d.segs :
        d.segs[i].tag = "PT_LOAD" /\ d.segs[i].flags = PF_X + PF_R

\* A reported module is usable when its path resolves, it has a text
\* segment and its file can be mapped or (where the build has a live scan)
\* its call-frame records can be found in memory.
Usable(v, d) ==
    IF v = "macos"
    THEN d.name # "null" /\ d.hdr = "ok" /\ HasSeg(d, "__TEXT") /\ d.fileOk
    ELSE /\ ElfPath(d).ok
         /\ HasElfText(d)
         /\ \/ d.fileOk
            \/ v = "dl_iterate_phdr" /\ HasSeg(d, "PT_GNU_EH_FRAME") /\ d.scanOk

RECURSIVE UsableIds(_, _, _)
UsableIds(v, l, i) ==
    IF i > Len(l) THEN <<>>
    ELSE (IF Usable(v, l[i]) THEN <<l[i].id>> ELSE <<>>) \o UsableIds(v, l, i + 1)

Ids(l) == [i \in DOMAIN l |-> l[i].id]

\* C9: every discovery callback returns 0 (continue), and every list a
\* caller has received holds exactly the usable modules of the loader's
\* list, each once, in the loader's order.
C9_SkipsOnlyUnusable ==
    /\ cbrets \subseteq {0}
    /\ \A t \in Threads :
          thr[t].got => Ids(thr[t].ret) = UsableIds(variant, loader, 1)

\* the loader's record of the module a registry entry was made from
Reported(o) == CHOOSE d \in {loader[i] : i \in DOMAIN loader} : d.id = o.id

\* what makes a segment a text segment or an exception-frame-header segment
IsKind(sg, what) ==
    CASE what = "elf_text" -> sg.tag = "PT_LOAD" /\ sg.flags = PF_X + PF_R
      [] what = "mach_text" -> sg.tag = "__TEXT"
      [] OTHER -> sg.tag = "PT_GNU_EH_FRAME"

\* the first segment of that kind in program-header / load-command order
FirstSeg(segs, what) ==
    LET hits == {i \in DOMAIN segs : IsKind(segs[i], what)}
    IN IF hits = {} THEN NoSeg
       ELSE SomeSeg(segs[CHOOSE i \in hits : \A j \in hits : i <= j])

\* the stated address and size of the text segment a registry entry
\* carries: on Mach-O the stated address is recorded as the base address
CarriedText(v, o) ==
    IF v = "macos" THEN [p_vaddr |-> o.base_addr, p_memsz |-> o.text.p_memsz]
    ELSE o.text

\* C13: every entry of a list a caller has received carries the first text
\* segment its module reports (the first r-x PT_LOAD on ELF, the first
\* __TEXT on Mach-O) and, when its unwind data comes from the live scan,
\* the first exception-frame-header segment.
C13_FirstSegmentKept ==
    \A t \in Threads : thr[t].got =>
        \A i \in DOMAIN thr[t].ret :
            LET o == thr[t].ret[i]
                d == Reported(o)
                first == FirstSeg(d.segs, IF variant = "macos" THEN "mach_text"
                                          ELSE "elf_text")
            IN /\ CarriedText(variant, o) =
                    [p_vaddr |-> first.p_vaddr, p_memsz |-> first.p_memsz]
               /\ o.unwind = "EhFrame" =>
                    o.eh_frame_hdr = FirstSeg(d.segs, "eh_frame_hdr").p_vaddr

\* a reported module whose path resolves and which has a text segment
WithText(v, d) ==
    IF v = "macos"
    THEN d.name # "null" /\ d.hdr = "ok" /\ HasSeg(d, "__TEXT")
    ELSE ElfPath(d).ok /\ HasElfText(d)

\* C15: in every list a caller has received, a module with a text segment
\* whose file can be opened, mapped and parsed is present with mapped-file
\* unwind data, and an entry has live-scan unwind data only when its file
\* is inaccessible, it has an exception-frame-header segment and the scan
\* of it succeeds.
C15_MappedFilePreferred ==
    \A t \in Threads : thr[t].got =>
        /\ \A i \in DOMAIN loader :
              (WithText(variant, loader[i]) /\ loader[i].fileOk) =>
                  \E j \in DOMAIN thr[t].ret :
                      /\ thr[t].ret[j].id = loader[i].id
                      /\ thr[t].ret[j].unwind = "Mmap"
        /\ \A j \in DOMAIN thr[t].ret :
              thr[t].ret[j].unwind = "EhFrame" =>
                  /\ ~Reported(thr[t].ret[j]).fileOk
                  /\ HasSeg(Reported(thr[t].ret[j]), "PT_GNU_EH_FRAME")
                  /\ Reported(thr[t].ret[j]).scanOk

\* some __TEXT segment of d starts at file offset zero with a file size
TextAtFileStart(d) ==
    \E i \in DOMAIN d.segs :
        /\ d.segs[i].tag = "__TEXT"
        /\ d.segs[i].fileoff = 0 /\ d.segs[i].filesize > 0

\* C19: in Mach-O discovery every entry of a list a caller has received
\* has base address + text offset = loader slide + the stated vmaddr of a
\* __TEXT segment of its module: base = slide and text offset = vmaddr
\* when a __TEXT segment starts at file offset zero with a non-zero file
\* size, base = slide + vmaddr and text offset = 0 when none does.
C19_SlideNormalised ==
    variant = "macos" =>
        \A t \in Threads : thr[t].got =>
            \A j \in DOMAIN thr[t].ret :
                LET o == thr[t].ret[j]
                    d == Reported(o)
                IN \E i \in DOMAIN d.segs :
                      /\ d.segs[i].tag = "__TEXT"
                      /\ o.base_addr + o.text.p_vaddr = d.addr + d.segs[i].vaddr
                      /\ IF TextAtFileStart(d)
                         THEN o.base_addr = d.addr
                              /\ o.text.p_vaddr = d.segs[i].vaddr
                         ELSE o.base_addr = d.addr + d.segs[i].vaddr
                              /\ o.text.p_vaddr = 0

\* the bytes of a named section of a module's file
SectionBytes(id, section_name) ==
    [file |-> id, start |-> FileRange(id, section_name).off,
     end |-> FileRange(id, section_name).off + FileRange(id, section_name).size]

HasSection(id, section_name) == FileRange(id, section_name).some

\* C17: every module Unwinder::new has made from an entry with mapped-file
\* unwind data carries: header bytes of .eh_frame_hdr and body bytes of
\* .eh_frame when the file has both sections; the body bytes of .eh_frame
\* alone when it has only .eh_frame; and no unwind data only when the file
\* has no .eh_frame.
C17_RightSections ==
    \A t \in Threads : \A i \in DOMAIN thr[t].mods :
        LET id == thr[t].ret[i].id
            ud == thr[t].mods[i].unwind_data
        IN thr[t].ret[i].unwind = "Mmap" =>
              /\ (HasSection(id, ".eh_frame_hdr") /\ HasSection(id, ".eh_frame")) =>
                    ud = [kind |-> "EhFrameHdrAndEhFrame",
                          hdr |-> SectionBytes(id, ".eh_frame_hdr"),
                          body |-> SectionBytes(id, ".eh_frame")]
              /\ (~HasSection(id, ".eh_frame_hdr") /\ HasSection(id, ".eh_frame")) =>
                    /\ ud.kind = "EhFrame"
                    /\ ud.body = SectionBytes(id, ".eh_frame")
              /\ ud.kind = "None" => ~HasSection(id, ".eh_frame")

\* C18: Unwinder::new never panics, and when it has returned the module
\* table holds one module per registry entry, in order, each spanning the
\* entry's runtime text range [base + text offset, base + text offset +
\* text size).
C18_OneModulePerEntry ==
    \A t \in Threads :
        /\ thr[t].pc # "panic"
        /\ thr[t].built =>
              /\ Len(thr[t].mods) = Len(thr[t].ret)
              /\ \A i \in DOMAIN thr[t].mods :
                    /\ thr[t].mods[i].name = thr[t].ret[i].id
                    /\ thr[t].mods[i].avma_range =
                          [lo |-> thr[t].ret[i].base_addr + thr[t].ret[i].text.p_vaddr,
                           hi |-> thr[t].ret[i].base_addr + thr[t].ret[i].text.p_vaddr
                                  + thr[t].ret[i].text.p_memsz]

-----------------------------------------------------------------------------
(* Properties of the validator under several threads (SpecThreads).        *)

\* C11: a thread that has not called validate holds no descriptors, and no
\* thread ever reads from, writes to or closes an open descriptor that is
\* not an end of a pipe it created itself.
C11_NoForeignDescriptor ==
    /\ \A t \in Threads :
          (vt[t].calls = 0 /\ vt[t].pc = "idle") => vt[t].pipes = PipesInit
    /\ races = {}

-----------------------------------------------------------------------------
(* Properties of the live scan (SpecScan).                                 *)

\* C14: the walk ends at the first zero-length record of the region: it
\* never reads outside mapped memory, every step over a record (its length
\* field plus its declared size) lands at or before that record, no length
\* field is read at an address after it, and the range reported runs from
\* eh_frame_ptr up to and including the 4 bytes of that record.
C14_StopsAtTerminator ==
    /\ scan.pc # "fault"
    /\ \A a \in scan.lenReads : a <= scan.term
    /\ \A i \in DOMAIN scan.steps :
          scan.steps[i].from + scan.steps[i].size <= scan.term
    /\ scan.pc = "done" => scan.eh_frame_end = scan.term + WordSize

-----------------------------------------------------------------------------
(* The specifications.  Each starts the component it explores and leaves  *)
(* the others as they are before their first use.                          *)

InitValidate ==
    /\ platform \in {"linux", "macos"}
    /\ shortWrites \in BOOLEAN
    /\ kern = KernInit
    /\ pipes = PipesInit
    /\ owned = {}
    /\ vlog = NoCall
    /\ vcalls = 0
    /\ vhist = {}
    /\ image = [depth |-> 0, ending |-> "zero"]
    /\ iter = NoIter
    /\ yielded = <<>>
    /\ ulog = NoPull
    /\ faulted = FALSE
    /\ variant = "dl_iterate_phdr"
    /\ loader = <<>>
    /\ lazy = "uninit"
    /\ objects = <<>>
    /\ scans = 0
    /\ thr = [t \in Threads |-> Idle]
    /\ cbrets = {}
    /\ scan = NoScan
    /\ vt = [t \in Threads |-> ThreadIdle]
    /\ fdOwner = [fd \in FdRange |-> "none"]
    /\ races = {}

InitUnwind ==
    /\ platform \in {"linux", "macos"}
    /\ shortWrites \in BOOLEAN
    /\ kern = KernInit
    /\ pipes = PipesInit
    /\ owned = {}
    /\ vlog = NoCall
    /\ vcalls = 0
    /\ vhist = {}
    /\ image \in ImageSet
    /\ iter = NoIter
    /\ yielded = <<>>
    /\ ulog = NoPull
    /\ faulted = FALSE
    /\ variant = "dl_iterate_phdr"
    /\ loader = <<>>
    /\ lazy = "uninit"
    /\ objects = <<>>
    /\ scans = 0
    /\ thr = [t \in Threads |-> Idle]
    /\ cbrets = {}
    /\ scan = NoScan
    /\ vt = [t \in Threads |-> ThreadIdle]
    /\ fdOwner = [fd \in FdRange |-> "none"]
    /\ races = {}

InitObjects ==
    /\ platform = "linux"
    /\ shortWrites = FALSE
    /\ kern = KernInit
    /\ pipes = PipesInit
    /\ owned = {}
    /\ vlog = NoCall
    /\ vcalls = 0
    /\ vhist = {}
    /\ image = [depth |-> 0, ending |-> "zero"]
    /\ iter = NoIter
    /\ yielded = <<>>
    /\ ulog = NoPull
    /\ faulted = FALSE
    /\ variant \in {"dl_iterate_phdr", "macos", "object"}
    /\ loader \in LoaderLists(IF variant = "macos" THEN MachPool ELSE ElfPool)
    /\ lazy = "uninit"
    /\ objects = <<>>
    /\ scans = 0
    /\ thr = [t \in Threads |-> Idle]
    /\ cbrets = {}
    /\ scan = NoScan
    /\ vt = [t \in Threads |-> ThreadIdle]
    /\ fdOwner = [fd \in FdRange |-> "none"]
    /\ races = {}

InitScan ==
    /\ platform = "linux"
    /\ kern = KernInit
    /\ pipes = PipesInit
    /\ owned = {}
    /\ vlog = NoCall
    /\ vcalls = 0
    /\ vhist = {}
    /\ shortWrites = FALSE
    /\ image = [depth |-> 0, ending |-> "zero"]
    /\ iter = NoIter
    /\ yielded = <<>>
    /\ ulog = NoPull
    /\ faulted = FALSE
    /\ variant = "dl_iterate_phdr"
    /\ loader = <<>>
    /\ lazy = "uninit"
    /\ objects = <<>>
    /\ scans = 0
    /\ thr = [t \in Threads |-> Idle]
    /\ cbrets = {}
    /\ scan \in {StartScan(recs, tail) : recs \in RecLists, tail \in TailLists}
    /\ vt = [t \in Threads |-> ThreadIdle]
    /\ fdOwner = [fd \in FdRange |-> "none"]
    /\ races = {}

InitThreads ==
    /\ platform = "linux"
    /\ kern = KernInit
    /\ pipes = PipesInit
    /\ owned = {}
    /\ vlog = NoCall
    /\ vcalls = 0
    /\ vhist = {}
    /\ shortWrites = FALSE
    /\ image = [depth |-> 0, ending |-> "zero"]
    /\ iter = NoIter
    /\ yielded = <<>>
    /\ ulog = NoPull
    /\ faulted = FALSE
    /\ variant = "dl_iterate_phdr"
    /\ loader = <<>>
    /\ lazy = "uninit"
    /\ objects = <<>>
    /\ scans = 0
    /\ thr = [t \in Threads |-> Idle]
    /\ cbrets = {}
    /\ scan = NoScan
    /\ vt = [t \in Threads |-> ThreadIdle]
    /\ fdOwner = [fd \in FdRange |-> "none"]
    /\ races = {}

SpecValidate == InitValidate /\ [][ValidateNext]_vars
SpecUnwind == InitUnwind /\ [][UnwindNext]_vars
SpecObjects == InitObjects /\ [][ObjectsNext]_vars
SpecScan == InitScan /\ [][ScanNext]_vars
SpecThreads == InitThreads /\ [][ThreadsNext]_vars

Init == InitValidate
Next == ValidateNext
Spec == Init /\ [][Next]_vars
====
